---- MODULE Spec2Model ----
(***************************************************************************)
(* Exploration engine of the USAGI crawler (src/usagi/main.py): the        *)
(* planner-response consumer plan_actions, the executor find_and_act and   *)
(* the driver loop run, with the exploration records visited,              *)
(* state_memory and transitions.                                           *)
(*                                                                         *)
(* A planner response is a sequence of lexical tokens: "[", "]", ",", a    *)
(* scalar literal, a complete object literal {...}, a piece of bare text   *)
(* that is no JSON, and a string literal of a character that stdout cannot *)
(* encode, holding it as it is or as a \u escape.  Brackets never occur    *)
(* inside a token.  A token stands for text of any length.                 *)
(*                                                                         *)
(* stdout encodes the messages of the program itself; a text that comes    *)
(* from the planner, the backend or the page can hold a character it       *)
(* cannot encode, and print raises UnicodeEncodeError on it.               *)
(***************************************************************************)
EXTENDS Integers, Sequences, FiniteSets, TLC

\* ------------------------------------------------------------------ bounds
MAX_STEPS == 2
MaxRawLen == 4

\* ------------------------------------------------------- program constants
ACTION_TRY_LIMIT == 3
PLAN_CAP == 3
\* the visited cap of the source is the literal 200, the value of MAX_STEPS
\* there; the model scales the two together
VISITED_LIMIT == MAX_STEPS

\* None of Python
NoId == -1

\* ------------------------------------------------------------ JSON values
\* t: "obj" (a dict), "num" (any scalar that stdout can print), "ustr" (a str
\* with a character that stdout cannot encode), "list", "null" (no value)
\* fv: the fill_value of an object, 1 for a text and 0 for '' or no such key
JVal(t, at, tid, rat, conf, fv, items) ==
    [t |-> t, at |-> at, tid |-> tid, rat |-> rat, conf |-> conf, fv |-> fv,
     items |-> items]

JNull == JVal("null", "absent", NoId, "", 0, 0, <<>>)
JNum == JVal("num", "absent", NoId, "", 0, 0, <<>>)
JUStr == JVal("ustr", "absent", NoId, "", 0, 0, <<>>)
JList(items) == JVal("list", "absent", NoId, "", 0, 0, items)
\* an object literal; at = "absent" when it has no action_type key,
\* tid = NoId when it has no target_id key (or null); no fill_value key
JObj(at, tid, rat, conf) == JVal("obj", at, tid, rat, conf, 0, <<>>)
\* a fill action that carries a fill_value
JFill(tid, rat, conf, fv) == JVal("obj", "fill", tid, rat, conf, fv, <<>>)

\* ----------------------------------------------------------------- tokens
Tok(k, v) == [k |-> k, v |-> v]

LB == Tok("lb", JNull)
RB == Tok("rb", JNull)
COMMA == Tok("comma", JNull)
NUM == Tok("num", JNum)
TXT == Tok("txt", JNull)
\* a string literal that holds a character stdout cannot encode, the
\* character lying within the first 1000 characters of the response
USTR == Tok("ustr", JUStr)
\* the same, the character lying beyond the first 1000 characters of the
\* response
UFAR == Tok("ufar", JUStr)
\* a string literal that names such a character by a \u escape: the literal
\* can be printed, the str it decodes to cannot
ESTR == Tok("estr", JUStr)
OBJ(o) == Tok("obj", o)

\* ------------------------------------------------------------- json.loads
PRes(ok, val, next) == [ok |-> ok, val |-> val, next |-> next]

PFail == PRes(FALSE, JNull, 0)

RECURSIVE ParseValue(_, _)
RECURSIVE ParseItems(_, _, _)

\* one JSON value starting at position i of s
ParseValue(s, i) ==
    IF i > Len(s) THEN PFail
    ELSE CASE s[i].k = "num" -> PRes(TRUE, JNum, i + 1)
           [] s[i].k \in {"ustr", "ufar", "estr"} -> PRes(TRUE, JUStr, i + 1)
           [] s[i].k = "obj" -> PRes(TRUE, s[i].v, i + 1)
           [] s[i].k = "lb" ->
                IF i + 1 <= Len(s) /\ s[i + 1].k = "rb"
                THEN PRes(TRUE, JList(<<>>), i + 2)
                ELSE ParseItems(s, i + 1, <<>>)
           [] OTHER -> PFail

\* the members of an array after its "[", up to and including its "]"
ParseItems(s, i, acc) ==
    LET v == ParseValue(s, i) IN
    IF ~v.ok \/ v.next > Len(s) THEN PFail
    ELSE CASE s[v.next].k = "comma" -> ParseItems(s, v.next + 1, Append(acc, v.val))
           [] s[v.next].k = "rb" -> PRes(TRUE, JList(Append(acc, v.val)), v.next + 1)
           [] OTHER -> PFail

\* json.loads(raw): ok = FALSE stands for the exception it raises
json_loads(s) ==
    LET r == ParseValue(s, 1) IN
    IF r.ok /\ r.next = Len(s) + 1 THEN r ELSE PFail

\* ------------------------------------------------------- re.search(\[.*\])
LbPositions(s) == {i \in 1..Len(s) : s[i].k = "lb"}
RbPositions(s) == {i \in 1..Len(s) : s[i].k = "rb"}

MinOf(S) == CHOOSE x \in S : \A y \in S : x <= y
MaxOf(S) == CHOOSE x \in S : \A y \in S : x >= y

Match(found, text) == [found |-> found, text |-> text]

\* a faulty variant: the non-greedy pattern \[.*?\], first "[" to the first "]" after it
re_search_lazy(s) ==
    LET L == LbPositions(s) IN
    IF L = {} THEN Match(FALSE, <<>>)
    ELSE LET i == MinOf(L)
             R == {j \in RbPositions(s) : j > i} IN
         IF R = {} THEN Match(FALSE, <<>>)
         ELSE Match(TRUE, SubSeq(s, i, MinOf(R)))

\* greedy, with re.S: from the first "[" to the last "]" after it
re_search(s) ==
    LET L == LbPositions(s) IN
    IF L = {} THEN Match(FALSE, <<>>)
    ELSE LET i == MinOf(L)
             R == {j \in RbPositions(s) : j > i} IN
         IF R = {} THEN Match(FALSE, <<>>)
         ELSE Match(TRUE, SubSeq(s, i, MaxOf(R)))

\* --------------------------------------------------------------- call_llm
\* the backend: its construction raises ("init_raises", line 154), its call
\* raises with a message stdout can encode ("call_raises", line 156) or
\* cannot ("call_raises_unprintable"), or the call returns the content of
\* the message, a str ("str") or a list of content parts ("parts")
Backend(kind, text) == [kind |-> kind, text |-> text]

\* what call_llm gives plan_actions: an exception, or a value that is a str
\* or not
Returned(raised, isstr, text) == [raised |-> raised, isstr |-> isstr, text |-> text]

\* only llm(prompt) is inside the try: a raise of the construction leaves
\* call_llm; a raise of the call is printed (line 158) and becomes '', unless
\* stdout cannot encode its message: then the print raises in the handler
\* and that exception leaves call_llm
call_llm(b) ==
    IF b.kind = "init_raises" THEN Returned(TRUE, FALSE, <<>>)
    ELSE IF b.kind = "call_raises_unprintable" THEN Returned(TRUE, FALSE, <<>>)
    ELSE IF b.kind = "call_raises" THEN Returned(FALSE, TRUE, <<>>)
    ELSE Returned(FALSE, b.kind = "str", b.text)

\* ----------------------------------------------------------- plan_actions
NoopAction == JObj("noop", NoId, "parse_failed", 0)

Planned(raised, acts) == [raised |-> raised, actions |-> acts]

\* raw[:1000], the first 1000 characters of the response, as far as printing
\* them goes: the tokens before the first one whose unencodable character
\* lies beyond them
Printed(raw) ==
    LET far == {i \in DOMAIN raw : raw[i].k = "ufar"} IN
    IF far = {} THEN raw ELSE SubSeq(raw, 1, MinOf(far) - 1)

\* print(text) returns: stdout can encode every character of the text;
\* otherwise print raises UnicodeEncodeError
CanPrint(text) == \A i \in DOMAIN text : text[i].k \notin {"ustr", "ufar"}

\* a response is a str: the characters within its first 1000 precede those
\* beyond them
WellFormed(raw) ==
    \A i, j \in DOMAIN raw : (raw[i].k = "ufar" /\ raw[j].k = "ustr") => j < i

\* lines 187-190: the prints are outside any try, so on a text that stdout
\* cannot encode the exception leaves plan_actions and no noop is returned
ParseFailed(raw) ==
    IF CanPrint(Printed(raw)) THEN Planned(FALSE, <<NoopAction>>)
    ELSE Planned(TRUE, << >>)

\* lines 173-190 on what call_llm gave.  An exception of call_llm leaves
\* plan_actions (line 173).  On a raw that is no str json.loads raises
\* TypeError, and so does re.search in the handler (line 180): that one
\* leaves plan_actions too.
plan_actions(got) ==
    IF got.raised \/ ~got.isstr THEN Planned(TRUE, << >>)
    ELSE LET raw == got.text
             r == json_loads(raw) IN
         IF r.ok
         THEN IF r.val.t = "list" THEN Planned(FALSE, r.val.items)
              ELSE ParseFailed(raw)
         ELSE LET m == re_search(raw) IN
              IF m.found
              THEN LET r2 == json_loads(m.text) IN
                   IF r2.ok /\ r2.val.t = "list" THEN Planned(FALSE, r2.val.items)
                   ELSE ParseFailed(raw)
              ELSE ParseFailed(raw)

\* how a planning round ended: call_llm raised (lines 154, 158), the answer was no
\* str (line 180), the print of the answer raised (lines 188-189), or
\* plan_actions returned
RoundOf(got) ==
    IF got.raised THEN "call_llm_raised"
    ELSE IF ~got.isstr THEN "not_str"
    ELSE IF plan_actions(got).raised THEN "print_raised"
    ELSE "returned"

\* print(f"... {a}") of line 293: a member that is a str is printed as it
\* is; a dict, a list or a number is printed by its repr, which escapes what
\* stdout cannot encode
CanPrintAction(a) == a.t # "ustr"

\* ------------------------------------------------ the application under test
\* a page is its canonical DOM: the clickable selector captures nc elements,
\* the fillable selector nf, nb of them are captured by both (an input with
\* role=button), and val tells whether a captured element holds a text that
\* was typed into it (the current_value of a form field, the text of an
\* editable element: parts of the DOM that is hashed); title is 1 when the
\* document title holds a character that stdout cannot encode
Dom(nc, nf, nb, val) == [nc |-> nc, nf |-> nf, nb |-> nb, val |-> val, title |-> 0]

UnprintableTitle(dom) == [dom EXCEPT !.title = 1]

\* the documents the application serves
Doms == {Dom(1, 1, 0, 1),      \* a button and a form field that holds a value
         Dom(0, 1, 0, 0),      \* an empty form field, nothing to click
         Dom(1, 1, 1, 0),      \* one element that both selectors capture
         UnprintableTitle(Dom(0, 1, 0, 0))}  \* a title stdout cannot encode

\* and the pages they become when a text is typed or cleared
Pages == {[d EXCEPT !.val = v] : d \in Doms, v \in {0, 1}}

\* the rendered pixels vary between two captures of one DOM
Shots == {0, 1}

\* observe numbers the clickables 0..nc-1 and then the fillables nc..nc+nf-1
ClickableIdsOf(dom) == [i \in 1..dom.nc |-> i - 1]
FillableIdsOf(dom) == [i \in 1..dom.nf |-> dom.nc + i - 1]

Range(f) == {f[i] : i \in DOMAIN f}

\* the clickable ids of the elements both selectors capture (taken to be the
\* last nb clickables): the second setAttribute overwrites them
CapturedTwice(dom) == {dom.nc - i : i \in 1..dom.nb}

NumElements(dom) == dom.nc + dom.nf - dom.nb

\* the data-usagi-id values the captured elements carry after page.evaluate:
\* setAttribute('data-usagi-id', element_id) on each clickable, then on each
\* fillable
TaggedIds(dom) ==
    (Range(ClickableIdsOf(dom)) \ CapturedTwice(dom)) \cup Range(FillableIdsOf(dom))

\* the live data-usagi-id values after page.evaluate, tg being the live
\* values before it: no attribute is ever removed, so an element the
\* selectors do not capture keeps the value an earlier evaluate gave it.
\* When the page did not change since it was tagged (not dirty) the same
\* elements are captured and every value stays; when it changed, the values
\* on the elements captured now are overwritten (one per element at most)
\* and those on the others stay
ObservedTags(dom, tg, dirty) ==
    IF dirty
    THEN {TaggedIds(dom) \cup st :
            st \in {x \in SUBSET tg : Cardinality(tg \ x) <= NumElements(dom)}}
    ELSE {TaggedIds(dom) \cup tg}

\* element.clear() empties the element
Cleared(dom) == [dom EXCEPT !.val = 0]

\* element.clear() and element.fill(fill_value), fill_value being
\* action.get('fill_value', '')
Filled(dom, a) == [dom EXCEPT !.val = a.fv]

\* sha256 of the key-sorted JSON dump of the DOM: one digest per canonical DOM
sha256_dom(dom) ==
    10000 * dom.title + 1000 * dom.val + 100 * dom.nb + 10 * dom.nc + dom.nf

\* the prints of lines 284 and 286 show state['summary'], which begins with
\* the title (line 88)
CanPrintSummary(dom) == dom.title = 0

Snapshot(fp, dom, shot, seq) ==
    [dom_finger |-> fp, dom |-> dom, clickables |-> ClickableIdsOf(dom),
     fillables |-> FillableIdsOf(dom), screenshot_hash |-> shot, seq |-> seq]

NoState == Snapshot(-1, Dom(0, 0, 0, 0), 0, 0)

\* a faulty variant: the state identity mixes the screenshot digest in
observe_pixels(dom, shot, seq) ==
    Snapshot(100000 * (shot + 1) + sha256_dom(dom), dom, shot, seq)

\* observe(page); seq is the ordinal of this observation in the run
observe(dom, shot, seq) ==
    Snapshot(sha256_dom(dom), dom, shot, seq)

\* ----------------------------------------------------------- find_and_act
Res(raised, ok, reason, action, tid, touched) ==
    [raised |-> raised, ok |-> ok, reason |-> reason, action |-> action,
     target_id |-> tid, touched |-> touched]

NoRes == Res(FALSE, FALSE, "none", "none", NoId, FALSE)

SurfaceTypes == {"fill", "click", "navigate"}

\* what locate / scroll / click / clear / fill do for action a on the live
\* page.  They are reached by a fill, click or navigate with a target_id
\* only.  When no live element carries the tag they raise before anything
\* is done ("fail").  Otherwise they can succeed ("ok"), raise before
\* anything is done, or raise after the page was acted on ("fail_acted").
\* The message of the exception is one stdout can encode, or cannot
\* ("..._unprintable");
\* click dispatches the click and raises when the navigation it waits for
\* outlasts the timeout, and fill can raise after clear emptied the element.
\* clear and fill accept any editable element, form field or not.
SurfaceOutcomes(a, dom, tagged) ==
    IF a.t = "obj" /\ a.at \in SurfaceTypes /\ a.tid \in tagged
    THEN {"ok", "fail", "fail_acted", "fail_unprintable", "fail_acted_unprintable"}
    ELSE IF a.t = "obj" /\ a.at \in SurfaceTypes /\ a.tid # NoId
    THEN {"fail", "fail_unprintable"}
    ELSE {"fail"}

SurfaceFailures == {"fail", "fail_acted", "fail_unprintable", "fail_acted_unprintable"}

\* the surface raised after the page was acted on
SurfaceActed == {"fail_acted", "fail_acted_unprintable"}

\* the surface raised with a message stdout cannot encode (it quotes the
\* element): the print of the handler (lines 221, 233, 245) raises and the
\* outer handler of lines 251-253 reports it
SurfaceUnprintable == {"fail_unprintable", "fail_acted_unprintable"}

\* the pages a successful action can lead to: any document or the same page
\* and, for a fill, one of these with the fill_value in the element (the page
\* can react to the clear before the fill writes)
PagesAfter(dom, a) ==
    Doms \cup {dom}
         \cup (IF a.at = "fill" THEN {Filled(d, a) : d \in Doms \cup {dom}} ELSE {})

\* the pages a try can leave that raised after it acted: any document or the
\* same page and, for a fill, one of these with the element emptied (clear
\* ran, fill raised) or with the fill_value in it (fill wrote and raised, or
\* the print of line 218 raised)
PagesAfterFailure(dom, a) ==
    Doms \cup {dom}
         \cup (IF a.at = "fill"
               THEN {Cleared(d) : d \in Doms \cup {dom}}
                        \cup {Filled(d, a) : d \in Doms \cup {dom}}
               ELSE {})

\* a faulty variant: the surface's exception is not caught
find_and_act_uncaught(a, surf) ==
    IF a.t # "obj" THEN Res(TRUE, FALSE, "AttributeError", "none", NoId, FALSE)
    ELSE LET action_type == IF a.at = "absent" THEN "noop" ELSE a.at IN
         IF action_type = "noop" THEN Res(FALSE, FALSE, "noop", "none", NoId, FALSE)
         ELSE IF a.tid = NoId THEN Res(FALSE, FALSE, "no_target_id", "none", NoId, FALSE)
         ELSE IF action_type \in SurfaceTypes
              THEN IF surf = "ok"
                   THEN Res(FALSE, TRUE, "none", action_type, a.tid, TRUE)
                   ELSE Res(TRUE, FALSE, "TimeoutError", "none", NoId, TRUE)
              ELSE Res(FALSE, FALSE, "unknown_action_type", "none", NoId, FALSE)

\* a faulty variant: the target is looked for before the action type is read
find_and_act_target_first(a, surf) ==
    IF a.t # "obj" THEN Res(TRUE, FALSE, "AttributeError", "none", NoId, FALSE)
    ELSE LET action_type == IF a.at = "absent" THEN "noop" ELSE a.at IN
         IF a.tid = NoId THEN Res(FALSE, FALSE, "no_target_id", "none", NoId, FALSE)
         ELSE IF action_type = "noop" THEN Res(FALSE, FALSE, "noop", "none", NoId, FALSE)
         ELSE IF action_type \in SurfaceTypes
              THEN IF surf = "ok"
                   THEN Res(FALSE, TRUE, "none", action_type, a.tid, TRUE)
                   ELSE IF surf \in SurfaceUnprintable
                   THEN Res(FALSE, FALSE, "exception", "none", NoId, TRUE)
                   ELSE Res(FALSE, FALSE, action_type \o "_error", "none", NoId, TRUE)
              ELSE Res(FALSE, FALSE, "unknown_action_type", "none", NoId, FALSE)

\* find_and_act(page, action, ...); surf is the outcome of the surface calls,
\* read only when they are made.  A plan member that is no dict has no .get:
\* the call raises AttributeError before the try block.  A failure of the
\* surface is reported as <action_type>_error by the inner handler, or as
\* exception by the outer one when the print of the inner handler raised.
find_and_act(a, surf) ==
    IF a.t # "obj" THEN Res(TRUE, FALSE, "AttributeError", "none", NoId, FALSE)
    ELSE LET action_type == IF a.at = "absent" THEN "noop" ELSE a.at IN
         IF action_type = "noop" THEN Res(FALSE, FALSE, "noop", "none", NoId, FALSE)
         ELSE IF a.tid = NoId THEN Res(FALSE, FALSE, "no_target_id", "none", NoId, FALSE)
         ELSE IF action_type \in SurfaceTypes
              THEN IF surf = "ok"
                   THEN Res(FALSE, TRUE, "none", action_type, a.tid, TRUE)
                   ELSE IF surf \in SurfaceUnprintable
                   THEN Res(FALSE, FALSE, "exception", "none", NoId, TRUE)
                   ELSE Res(FALSE, FALSE, action_type \o "_error", "none", NoId, TRUE)
              ELSE Res(FALSE, FALSE, "unknown_action_type", "none", NoId, FALSE)

\* an action type that is none of the program's and holds a character that
\* stdout cannot encode (the response names it by a \u escape)
UnprintableTypes == {"hover_ud800"}

\* line 309 prints res.get("reason"); the reason of an unknown action type
\* quotes the action type
CanPrintReason(a, res) ==
    ~(res.reason = "unknown_action_type" /\ a.at \in UnprintableTypes)

\* ------------------------------------------------------ planner responses
PlannerAct(at, tid) == JObj(at, tid, "llm", 1)
PlannerFill(tid, fv) == JFill(tid, "llm", 1, fv)

WrapList(objs) ==
    <<LB>> \o
    [i \in 1..(2 * Len(objs) - 1) |->
        IF i % 2 = 1 THEN OBJ(objs[(i + 1) \div 2]) ELSE COMMA] \o
    <<RB>>

\* responses the backend gives the driver
DriverTexts ==
    { <<TXT>>,                                   \* prose, no JSON
      <<USTR>>,                                  \* a str that stdout cannot encode
      <<UFAR>>,                                  \* the same, beyond character 1000
      <<LB, USTR, RB>>,                          \* an array of one such str
      <<NUM>>,                                   \* JSON, not an array
      <<OBJ(PlannerAct("click", 0))>>,           \* one action, not in an array
      <<LB, RB>>,                                \* the empty array
      <<LB, NUM, RB>>,                           \* an array of non-objects
      WrapList(<<PlannerAct("click", 0)>>),
      WrapList(<<PlannerAct("fill", 0)>>),
      WrapList(<<PlannerFill(0, 1)>>),
      WrapList(<<PlannerAct("navigate", 0)>>),
      WrapList(<<PlannerAct("noop", 0)>>),
      WrapList(<<PlannerAct("absent", 0)>>),
      WrapList(<<PlannerAct("click", NoId)>>),
      WrapList(<<PlannerAct("hover", 0)>>),
      WrapList(<<PlannerAct("hover_ud800", 0)>>),
      WrapList(<<PlannerAct("click", 5), PlannerAct("click", 0)>>),
      WrapList(<<PlannerAct("click", 0), PlannerAct("click", 1)>>),
      WrapList(<<PlannerAct("noop", 0), PlannerAct("noop", 0), PlannerAct("noop", 0),
                 PlannerAct("click", 0)>>),
      <<TXT>> \o WrapList(<<PlannerAct("click", 1)>>) \o <<TXT>> }

\* the backends that fail, and one that answers with a list of parts
OtherBackends ==
    {Backend("init_raises", << >>), Backend("call_raises", << >>),
     Backend("call_raises_unprintable", << >>),
     Backend("parts", <<LB, RB>>)}

DriverBackends == OtherBackends \cup {Backend("str", x) : x \in DriverTexts}

\* ------------------------------------------------------------------ state
VARIABLES
    page,           \* the live page: its DOM
    tags,           \* the data-usagi-id values carried by live elements
    dirty,          \* the page changed since page.evaluate last tagged it
    pc,             \* position in run / in the parse harness
    step,           \* the loop index of run
    state,          \* the Snapshot of the loop top
    visited,        \* set of dom_finger
    state_memory,   \* dom_finger -> set of element ids
    transitions,    \* sequence of [from, to, action]
    raw,            \* the planner's text as call_llm returned it
    round,          \* how the latest planning round ended (RoundOf)
    actions,        \* the list plan_actions returned
    ai,             \* index of the planned action being tried (from 1)
    t,              \* the try index of the retry loop (from 0)
    acted,
    reported,       \* the counts printed at the end
    nObserve,       \* history: calls of observe, those that raised included
    nLoopObserve,   \* history: calls of observe at the loop top
    nExecOk,        \* history: executor calls that returned ok
    okCalls,        \* history: [fp, id] of every ok executor call
    last,           \* history: the latest executor call of this iteration
    obsExhausted,   \* history: at the loop-top observe, attempted = clickables
    iterCalls,      \* history: executor calls of this iteration
    okAt,           \* history: iterCalls at this iteration's first ok, or 0
    reShot          \* history: this loop-top Snapshot has the DOM of the one
                    \* before it and another screenshot digest

vars == <<page, tags, dirty, pc, step, state, visited, state_memory, transitions, raw,
          round, actions, ai, t, acted, reported, nObserve, nLoopObserve, nExecOk,
          okCalls, last, obsExhausted, iterCalls, okAt, reShot>>

envVars == <<page, tags, dirty>>
recordVars == <<visited, state_memory, transitions>>
planVars == <<raw, round, actions>>
histVars == <<nObserve, nLoopObserve, nExecOk, okCalls, last, obsExhausted,
              iterCalls, okAt, reShot>>

Call(kind, a, try, res, surf, snap, obs, fp) ==
    [kind |-> kind, a |-> a, try |-> try, res |-> res, surf |-> surf,
     snap |-> snap, obs |-> obs, fp |-> fp]

NoCall == Call("none", JNull, 0, NoRes, "none", 0, 0, -1)

Report(states, trans, interacted) ==
    [states |-> states, transitions |-> trans, interacted |-> interacted]

NoReport == Report(-1, -1, -1)

\* ------------------------------------------------------ pieces of run
Min(a, b) == IF a < b THEN a ELSE b

\* a faulty variant: the whole plan is attempted, with no cap
Batch_all(acts) == acts

\* actions[:3]
Batch(acts) == SubSeq(acts, 1, Min(Len(acts), PLAN_CAP))

\* a faulty variant: an entry is replaced, not added to
record_overwrite(mem, fp, id) == [mem EXCEPT ![fp] = {id}]

\* clicked_ids.add(id), clicked_ids being state_memory[state_id]
record(mem, fp, id) == [mem EXCEPT ![fp] = @ \cup {id}]

\* a faulty variant: the id is recorded whether or not the call succeeded
RecordOutcome_any(mem, fp, res, id) ==
    IF id # NoId THEN record(mem, fp, id) ELSE mem

\* lines 296-300 and 331-332: if res.get('ok'): ... clicked_ids.add(id); the
\* planned branch passes res.get('target_id'), the fallback its chosen_id
RecordOutcome(mem, fp, res, id) ==
    IF res.ok /\ id # NoId THEN record(mem, fp, id) ELSE mem

\* a faulty variant: only the entry of the current state is kept
InitMemory_fresh(mem, fp) ==
    [k \in {fp} |-> IF fp \in DOMAIN mem THEN mem[fp] ELSE {}]

\* if state_id not in state_memory: state_memory[state_id] = set()
InitMemory(mem, fp) ==
    IF fp \in DOMAIN mem THEN mem
    ELSE [k \in DOMAIN mem \cup {fp} |-> IF k = fp THEN {} ELSE mem[k]]

Transition(from, to, a) == [from |-> from, to |-> to, action |-> a]

\* a faulty variant: every clickable is a candidate, clicked or not
Unclicked_all(st, clicked_ids) == st.clickables

\* a faulty variant: the fillables are candidates too
Unclicked_any(st, clicked_ids) ==
    SelectSeq(st.clickables \o st.fillables, LAMBDA id : id \notin clicked_ids)

\* the clickable ids of the Snapshot not in clicked_ids, in order
Unclicked(st, clicked_ids) ==
    SelectSeq(st.clickables, LAMBDA eid : eid \notin clicked_ids)

Ctl(p, a, tr) == [pc |-> p, ai |-> a, t |-> tr]

\* a faulty variant: a success ends the retries of one action, not the batch
AfterTry_no_break(ok, i, tr, n) ==
    IF ok
    THEN IF i < n THEN Ctl("act", i + 1, 0) ELSE Ctl("fallback", i, tr)
    ELSE IF tr + 1 < ACTION_TRY_LIMIT THEN Ctl("act", i, tr + 1)
         ELSE IF i < n THEN Ctl("act", i + 1, 0)
         ELSE Ctl("fallback", i, tr)

\* a faulty variant: one try too few
AfterTry_short(ok, i, tr, n) ==
    IF ok THEN Ctl("fallback", i, tr)
    ELSE IF tr + 2 < ACTION_TRY_LIMIT THEN Ctl("act", i, tr + 1)
         ELSE IF i < n THEN Ctl("act", i + 1, 0)
         ELSE Ctl("fallback", i, tr)

\* where the two loops over the batch go after try tr of action i of n:
\* a success breaks out of both, a failure retries, then takes the next action
AfterTry(ok, i, tr, n) ==
    IF ok THEN Ctl("fallback", i, tr)
    ELSE IF tr + 1 < ACTION_TRY_LIMIT THEN Ctl("act", i, tr + 1)
         ELSE IF i < n THEN Ctl("act", i + 1, 0)
         ELSE Ctl("fallback", i, tr)

\* a faulty variant: the fallback does not look at acted
FallbackRuns_always(a) == TRUE

\* if not acted:
FallbackRuns(a) == ~a

\* a faulty variant: one iteration too many
LoopContinues_off_by_one(s) == s + 1 <= MAX_STEPS

\* for step in range(MAX_STEPS): is there an iteration after iteration s
LoopContinues(s) == s + 1 < MAX_STEPS

\* a faulty variant: the cap is taken one state early
VisitedLimitReached_ge(v) == Cardinality(v) >= VISITED_LIMIT

\* if len(visited) > 200
VisitedLimitReached(v) == Cardinality(v) > VISITED_LIMIT

\* the live tags an action that acted can leave, with no observe since: a new
\* document (of the same structure or another) carries none, a page
\* re-rendered in place keeps the values of the elements that are still there,
\* a page that did not react keeps all
SurvivingTags(tg) == SUBSET tg

\* the live tags after an action that acted and the observe that follows it
ReobservedTags(dom, tg) ==
    UNION {ObservedTags(dom, kept, TRUE) : kept \in SurvivingTags(tg)}

SumSizes(mem) ==
    LET RECURSIVE Sum(_)
        Sum(K) == IF K = {} THEN 0
                  ELSE LET k == CHOOSE x \in K : TRUE
                       IN Cardinality(mem[k]) + Sum(K \ {k})
    IN Sum(DOMAIN mem)

\* ------------------------------------------------------------------- run
DriverInit ==
    /\ page \in Doms
    /\ tags = {}
    /\ dirty = TRUE
    /\ pc = "observe"
    /\ step = 0
    /\ state = NoState
    /\ visited = {}
    /\ state_memory = << >>
    /\ transitions = << >>
    /\ raw = << >>
    /\ round = "none"
    /\ actions = << >>
    /\ ai = 1
    /\ t = 0
    /\ acted = FALSE
    /\ reported = NoReport
    /\ nObserve = 0
    /\ nLoopObserve = 0
    /\ nExecOk = 0
    /\ okCalls = {}
    /\ last = NoCall
    /\ obsExhausted = FALSE
    /\ iterCalls = 0
    /\ okAt = 0
    /\ reShot = FALSE

\* lines 271-286: the loop-top observation and the classification of the
\* state; next is where run is after the print of line 284 or 286
Observed(next) ==
    /\ pc = "observe"
    /\ \E shot \in Shots :
         LET st == observe(page, shot, nObserve + 1)
             mem == InitMemory(state_memory, st.dom_finger)
         IN /\ state' = st
            /\ state_memory' = mem
            /\ visited' = visited \cup {st.dom_finger}
            /\ obsExhausted' = (mem[st.dom_finger] = Range(st.clickables))
            /\ reShot' = /\ state # NoState
                          /\ st.dom = state.dom
                          /\ st.screenshot_hash # state.screenshot_hash
    /\ tags' \in ObservedTags(page, tags, dirty)
    /\ dirty' = FALSE
    /\ nObserve' = nObserve + 1
    /\ nLoopObserve' = nLoopObserve + 1
    /\ iterCalls' = 0
    /\ okAt' = 0
    /\ last' = NoCall
    /\ pc' = next
    /\ UNCHANGED <<page, step, transitions, planVars, ai, t, acted, reported,
                   nExecOk, okCalls>>

\* lines 271-286, the summary printed
Observe == CanPrintSummary(page) /\ Observed("plan")

\* lines 271-286: state, state_memory and visited are updated (lines 274-283),
\* then the print of the summary raises and the exception leaves run
ObservePrintRaises == ~CanPrintSummary(page) /\ Observed("raised")

\* line 271: the automation surface cannot produce a snapshot; the exception
\* leaves run.  page.evaluate (lines 35-76) raised, or it tagged the page and
\* page.screenshot (line 83) raised
ObserveRaises ==
    /\ pc = "observe"
    /\ pc' = "raised"
    /\ \/ UNCHANGED <<tags, dirty>>
       \/ tags' \in ObservedTags(page, tags, dirty) /\ dirty' = FALSE
    /\ nObserve' = nObserve + 1
    /\ nLoopObserve' = nLoopObserve + 1
    /\ UNCHANGED <<page, step, state, recordVars, planVars, ai, t, acted,
                   reported, nExecOk, okCalls, last, obsExhausted, iterCalls,
                   okAt, reShot>>

\* lines 289-290: the planning round
Plan ==
    /\ pc = "plan"
    /\ \E b \in DriverBackends :
         LET got == call_llm(b)
             plan == plan_actions(got)
         IN /\ ~plan.raised
            /\ raw' = got.text
            /\ round' = RoundOf(got)
            /\ actions' = plan.actions
            /\ pc' = IF Batch(plan.actions) = << >> THEN "fallback" ELSE "act"
    /\ ai' = 1
    /\ t' = 0
    /\ acted' = FALSE
    /\ UNCHANGED <<envVars, step, state, recordVars, reported, histVars>>

\* line 289: plan_actions raises and the exception leaves run; actions is
\* not assigned
PlanRaises ==
    /\ pc = "plan"
    /\ \E b \in DriverBackends :
         LET got == call_llm(b)
         IN /\ plan_actions(got).raised
            /\ raw' = IF RoundOf(got) = "print_raised" THEN got.text ELSE raw
            /\ round' = RoundOf(got)
    /\ pc' = "raised"
    /\ UNCHANGED <<envVars, step, state, recordVars, actions, ai, t, acted,
                   reported, histVars>>

\* line 293: the print of a planned action raises and the exception leaves
\* run before find_and_act is called
SuggestedPrintRaises ==
    /\ pc = "act"
    /\ t = 0
    /\ ~CanPrintAction(Batch(actions)[ai])
    /\ pc' = "raised"
    /\ UNCHANGED <<envVars, step, state, recordVars, planVars, ai, t, acted,
                   reported, histVars>>

\* lines 295, 308-311: one try of a planned action that reports a failure
TryActionFails ==
    /\ pc = "act"
    /\ LET a == Batch(actions)[ai] IN
       \E surf \in SurfaceOutcomes(a, page, tags) :
         LET res == find_and_act(a, surf)
             nx == AfterTry(FALSE, ai, t, Len(Batch(actions)))
         IN /\ ~res.raised /\ ~res.ok
            /\ CanPrintReason(a, res)
            /\ last' = Call("planned", a, t + 1, res, surf, state.seq, nObserve,
                            state.dom_finger)
            /\ state_memory' = RecordOutcome(state_memory, state.dom_finger,
                                             res, res.target_id)
            /\ IF surf \in SurfaceActed
               THEN \E newpage \in PagesAfterFailure(page, a) :
                    \E kept \in SurvivingTags(tags) :
                      page' = newpage /\ tags' = kept /\ dirty' = TRUE
               ELSE UNCHANGED <<page, tags, dirty>>
            /\ pc' = nx.pc /\ ai' = nx.ai /\ t' = nx.t
    /\ iterCalls' = iterCalls + 1
    /\ UNCHANGED <<step, state, visited, transitions, planVars, acted,
                   reported,
                   nObserve, nLoopObserve, nExecOk, okCalls, obsExhausted, okAt,
                   reShot>>

\* lines 295, 308-309: a try returns a failure whose reason stdout cannot
\* encode; the print of line 309 raises and the exception leaves run
TryActionFailsPrintRaises ==
    /\ pc = "act"
    /\ LET a == Batch(actions)[ai] IN
       \E surf \in SurfaceOutcomes(a, page, tags) :
         LET res == find_and_act(a, surf)
         IN /\ ~res.raised /\ ~res.ok
            /\ ~CanPrintReason(a, res)
            /\ last' = Call("planned", a, t + 1, res, surf, state.seq, nObserve,
                            state.dom_finger)
            /\ state_memory' = RecordOutcome(state_memory, state.dom_finger,
                                             res, res.target_id)
    /\ iterCalls' = iterCalls + 1
    /\ pc' = "raised"
    /\ UNCHANGED <<envVars, step, state, visited, transitions, planVars, ai, t,
                   acted, reported, nObserve, nLoopObserve, nExecOk, okCalls,
                   obsExhausted, okAt, reShot>>

\* line 295: find_and_act raises on a plan member that is no dict
TryActionRaises ==
    /\ pc = "act"
    /\ CanPrintAction(Batch(actions)[ai])
    /\ LET a == Batch(actions)[ai] IN
       \E surf \in SurfaceOutcomes(a, page, tags) :
         LET res == find_and_act(a, surf)
         IN /\ res.raised
            /\ last' = Call("planned", a, t + 1, res, surf, state.seq, nObserve,
                            state.dom_finger)
    /\ iterCalls' = iterCalls + 1
    /\ pc' = "raised"
    /\ UNCHANGED <<envVars, step, state, recordVars, planVars, ai, t, acted,
                   reported, nObserve, nLoopObserve, nExecOk, okCalls,
                   obsExhausted, okAt, reShot>>

\* lines 295-307, 310-311: a try that succeeds; the id is recorded, the page
\* is observed again and the transition appended
TryActionOk ==
    /\ pc = "act"
    /\ LET a == Batch(actions)[ai] IN
       \E surf \in SurfaceOutcomes(a, page, tags) :
         LET res == find_and_act(a, surf)
             nx == AfterTry(TRUE, ai, t, Len(Batch(actions)))
         IN /\ ~res.raised /\ res.ok
            /\ last' = Call("planned", a, t + 1, res, surf, state.seq, nObserve,
                            state.dom_finger)
            /\ okCalls' = okCalls \cup {<<state.dom_finger, res.target_id>>}
            /\ state_memory' = RecordOutcome(state_memory, state.dom_finger,
                                             res, res.target_id)
            /\ \E newpage \in PagesAfter(page, a) :
                 /\ page' = newpage
                 /\ tags' \in ReobservedTags(newpage, tags)
                 /\ \E new_id \in {observe(newpage, shot, nObserve + 1).dom_finger :
                                      shot \in Shots} :
                      transitions' = Append(transitions,
                                            Transition(state.dom_finger, new_id, a))
            /\ dirty' = FALSE
            /\ pc' = nx.pc /\ ai' = nx.ai /\ t' = nx.t
    /\ acted' = TRUE
    /\ nObserve' = nObserve + 1
    /\ nExecOk' = nExecOk + 1
    /\ iterCalls' = iterCalls + 1
    /\ okAt' = IF okAt = 0 THEN iterCalls + 1 ELSE okAt
    /\ UNCHANGED <<step, state, visited, planVars, reported, nLoopObserve,
                   obsExhausted, reShot>>

\* lines 295-303: a try that succeeds and whose re-observation fails; the id
\* is recorded, the exception leaves run before the transition is appended
TryActionOkObserveRaises ==
    /\ pc = "act"
    /\ LET a == Batch(actions)[ai] IN
       \E surf \in SurfaceOutcomes(a, page, tags) :
         LET res == find_and_act(a, surf)
         IN /\ ~res.raised /\ res.ok
            /\ last' = Call("planned", a, t + 1, res, surf, state.seq, nObserve,
                            state.dom_finger)
            /\ okCalls' = okCalls \cup {<<state.dom_finger, res.target_id>>}
            /\ state_memory' = RecordOutcome(state_memory, state.dom_finger,
                                             res, res.target_id)
            /\ \E newpage \in PagesAfter(page, a) :
                 /\ page' = newpage
                 /\ \/ tags' \in SurvivingTags(tags) /\ dirty' = TRUE
                    \/ tags' \in ReobservedTags(newpage, tags) /\ dirty' = FALSE
    /\ acted' = TRUE
    /\ nExecOk' = nExecOk + 1
    /\ iterCalls' = iterCalls + 1
    /\ okAt' = IF okAt = 0 THEN iterCalls + 1 ELSE okAt
    /\ nObserve' = nObserve + 1
    /\ pc' = "raised"
    /\ UNCHANGED <<step, state, visited, transitions, planVars, ai, t, reported,
                   nLoopObserve, obsExhausted, reShot>>

\* line 314: an action was executed, the fallback is skipped
FallbackSkipped ==
    /\ pc = "fallback"
    /\ ~FallbackRuns(acted)
    /\ pc' = "loopctl"
    /\ UNCHANGED <<envVars, step, state, recordVars, planVars, ai, t, acted,
                   reported, histVars>>

\* lines 314-323, 337-339: no unclicked clickable is left, the loop is left
FallbackExhausted ==
    /\ pc = "fallback"
    /\ FallbackRuns(acted)
    /\ Unclicked(state, state_memory[state.dom_finger]) = << >>
    /\ pc' = "report"
    /\ UNCHANGED <<envVars, step, state, recordVars, planVars, ai, t, acted,
                   reported, histVars>>

\* lines 314-336: the random click of an unclicked clickable, which fails
FallbackClickFails ==
    /\ pc = "fallback"
    /\ FallbackRuns(acted)
    /\ LET unclicked == Unclicked(state, state_memory[state.dom_finger]) IN
       /\ unclicked # << >>
       /\ \E chosen_id \in Range(unclicked) :
            LET fallback_action == JObj("click", chosen_id, "", 0) IN
            \E surf \in SurfaceOutcomes(fallback_action, page, tags) :
              LET res == find_and_act(fallback_action, surf)
              IN /\ ~res.ok
                 /\ last' = Call("fallback", fallback_action, 1, res, surf,
                                 state.seq, nObserve, state.dom_finger)
                 /\ state_memory' = RecordOutcome(state_memory, state.dom_finger,
                                                  res, chosen_id)
                 /\ IF surf \in SurfaceActed
                    THEN \E newpage \in PagesAfterFailure(page, fallback_action) :
                         \E kept \in SurvivingTags(tags) :
                           page' = newpage /\ tags' = kept /\ dirty' = TRUE
                    ELSE UNCHANGED <<page, tags, dirty>>
    /\ iterCalls' = iterCalls + 1
    /\ pc' = "loopctl"
    /\ UNCHANGED <<step, state, visited, transitions, planVars, ai, t,
                   acted,
                   reported, nObserve, nLoopObserve, nExecOk, okCalls,
                   obsExhausted, okAt, reShot>>

\* lines 314-334: the random click of an unclicked clickable, which succeeds;
\* the id is recorded, nothing is appended to transitions
FallbackClickOk ==
    /\ pc = "fallback"
    /\ FallbackRuns(acted)
    /\ LET unclicked == Unclicked(state, state_memory[state.dom_finger]) IN
       /\ unclicked # << >>
       /\ \E chosen_id \in Range(unclicked) :
            LET fallback_action == JObj("click", chosen_id, "", 0) IN
            \E surf \in SurfaceOutcomes(fallback_action, page, tags) :
              LET res == find_and_act(fallback_action, surf)
              IN /\ res.ok
                 /\ last' = Call("fallback", fallback_action, 1, res, surf,
                                 state.seq, nObserve, state.dom_finger)
                 /\ okCalls' = okCalls \cup {<<state.dom_finger, chosen_id>>}
                 /\ state_memory' = RecordOutcome(state_memory, state.dom_finger,
                                                  res, chosen_id)
                 /\ page' \in PagesAfter(page, fallback_action)
                 /\ tags' \in SurvivingTags(tags)
                 /\ dirty' = TRUE
    /\ nExecOk' = nExecOk + 1
    /\ iterCalls' = iterCalls + 1
    /\ okAt' = IF okAt = 0 THEN iterCalls + 1 ELSE okAt
    /\ pc' = "loopctl"
    /\ UNCHANGED <<step, state, visited, transitions, planVars, ai, t, acted,
                   reported, nObserve, nLoopObserve, obsExhausted, reShot>>

\* lines 341-343 and 269: the visited cap, then the step budget
LoopControl ==
    /\ pc = "loopctl"
    /\ IF VisitedLimitReached(visited) THEN pc' = "report" /\ step' = step
       ELSE IF LoopContinues(step) THEN pc' = "observe" /\ step' = step + 1
       ELSE pc' = "report" /\ step' = step
    /\ UNCHANGED <<envVars, state, recordVars, planVars, ai, t, acted, reported,
                   histVars>>

\* lines 345-348: the counts printed when the loop is left
Finish ==
    /\ pc = "report"
    /\ reported' = Report(Cardinality(visited), Len(transitions), SumSizes(state_memory))
    /\ pc' = "done"
    /\ UNCHANGED <<envVars, step, state, recordVars, planVars, ai, t, acted,
                   histVars>>

Next ==
    \/ Observe
    \/ ObservePrintRaises
    \/ ObserveRaises
    \/ Plan
    \/ PlanRaises
    \/ SuggestedPrintRaises
    \/ TryActionFails
    \/ TryActionFailsPrintRaises
    \/ TryActionRaises
    \/ TryActionOk
    \/ TryActionOkObserveRaises
    \/ FallbackSkipped
    \/ FallbackExhausted
    \/ FallbackClickFails
    \/ FallbackClickOk
    \/ LoopControl
    \/ Finish

Spec == DriverInit /\ [][Next]_vars

\* ------------------------------------------------- plan_actions on its own
RawTokens == {LB, RB, COMMA, NUM, TXT, USTR, UFAR, ESTR, OBJ(PlannerAct("click", 0))}

RawTexts == {x \in UNION {[1..n -> RawTokens] : n \in 0..MaxRawLen} : WellFormed(x)}

ParseBackends == OtherBackends \cup {Backend("str", x) : x \in RawTexts}

ParseInit ==
    /\ page = Dom(0, 1, 0, 0)
    /\ tags = {}
    /\ dirty = TRUE
    /\ pc = "parse"
    /\ step = 0
    /\ state = NoState
    /\ visited = {}
    /\ state_memory = << >>
    /\ transitions = << >>
    /\ raw = << >>
    /\ round = "none"
    /\ actions = << >>
    /\ ai = 1
    /\ t = 0
    /\ acted = FALSE
    /\ reported = NoReport
    /\ nObserve = 0
    /\ nLoopObserve = 0
    /\ nExecOk = 0
    /\ okCalls = {}
    /\ last = NoCall
    /\ obsExhausted = FALSE
    /\ iterCalls = 0
    /\ okAt = 0
    /\ reShot = FALSE

\* lines 173-190: one planning round on any response of the backend
PlanActions ==
    /\ pc = "parse"
    /\ \E b \in ParseBackends :
         LET plan == plan_actions(call_llm(b))
         IN /\ ~plan.raised
            /\ raw' = call_llm(b).text
            /\ round' = RoundOf(call_llm(b))
            /\ actions' = plan.actions
    /\ pc' = "parsed"
    /\ UNCHANGED <<envVars, step, state, recordVars, ai, t, acted, reported,
                   histVars>>

\* lines 173, 180 and 188-189: the planning round that ends in an exception
PlanActionsRaises ==
    /\ pc = "parse"
    /\ \E b \in ParseBackends :
         LET got == call_llm(b)
         IN /\ plan_actions(got).raised
            /\ raw' = IF RoundOf(got) = "print_raised" THEN got.text ELSE raw
            /\ round' = RoundOf(got)
    /\ pc' = "raised"
    /\ UNCHANGED <<envVars, step, state, recordVars, actions, ai, t, acted,
                   reported, histVars>>

ParseNext == PlanActions \/ PlanActionsRaises

SpecParse == ParseInit /\ [][ParseNext]_vars

\* ================================================================= claims
K == ACTION_TRY_LIMIT

\* the latest planning round has returned: raw and actions belong together
HasPlan == round = "returned"

\* ---- C1
\* C1, as claimed: in any run the number of calls of observe is at most
\* MAX_STEPS, re-observations after a successful planned action included.
C1_Original == nObserve <= MAX_STEPS

\* C1, amended: the loop-top Observing phases number at most MAX_STEPS; every
\* successful planned action adds one more call of observe, which appends a
\* Transition unless it raises and ends the run, so the calls of observe
\* number at most 2 * MAX_STEPS.
C1_ObserveBound ==
    /\ nLoopObserve <= MAX_STEPS
    /\ nObserve <= nLoopObserve + Len(transitions) + (IF pc = "raised" THEN 1 ELSE 0)
    /\ nObserve <= 2 * MAX_STEPS

\* every iteration of the budget ran and re-observed
C1_Witness == nLoopObserve = MAX_STEPS /\ nObserve = 2 * MAX_STEPS

\* ---- C2
\* C2, as claimed: after observing a state whose attempted set equals the
\* clickable ids of the Snapshot, whatever the planner answers, no executor
\* call of the iteration returns ok, the run does not go on to another
\* iteration and nothing is raised.
C2_Original == obsExhausted => (okAt = 0 /\ pc \notin {"loopctl", "raised"})

\* C2, amended: after observing such a state, if no planned action of the
\* iteration returns ok, then the fallback makes no executor call, records no
\* id and appends no Transition, and the run ends in that iteration: by the
\* exhaustion break, or by an exception (the print of the state summary,
\* plan_actions, the print of a planned action or the print of the reason of
\* a failed try raising, or a plan member that is no object).  If a planned
\* action returns ok, its id is recorded and the page observed again; a
\* Transition is appended unless that observation raises, which ends the run;
\* the fallback is skipped and the exhaustion break is not taken in that
\* iteration.
C2_Exhaustion ==
    /\ []((obsExhausted /\ okAt = 0) => (pc # "loopctl" /\ last.kind # "fallback"))
    /\ [][(pc = "fallback" /\ obsExhausted /\ okAt = 0)
            => (pc' = "report" /\ UNCHANGED <<state_memory, transitions, nExecOk,
                                              iterCalls, page>>)]_vars
    /\ [][(pc = "act" /\ obsExhausted /\ nExecOk' = nExecOk + 1)
            => /\ last'.res.ok
               /\ last'.res.target_id \in state_memory'[state.dom_finger]
               /\ acted'
               /\ nObserve' = nObserve + 1
               /\ \/ /\ pc' = "fallback"
                     /\ transitions' = Append(transitions,
                            Transition(state.dom_finger, sha256_dom(page'), last'.a))
                  \/ /\ pc' = "raised"
                     /\ UNCHANGED transitions]_vars
    /\ [][(pc = "fallback" /\ obsExhausted /\ okAt > 0)
            => (pc' = "loopctl" /\ UNCHANGED <<state_memory, transitions, nExecOk,
                                               iterCalls, page>>)]_vars

\* a state with clickables, all attempted, where the planned tries failed and
\* the loop was left
C2_Witness ==
    /\ pc = "report" /\ obsExhausted /\ okAt = 0
    /\ state.clickables # << >> /\ iterCalls > 0

\* in such a state a planned action returned ok and the iteration went on
\* past the fallback
C2_PlannedOkWitness ==
    /\ pc = "loopctl" /\ obsExhausted /\ okAt > 0
    /\ state.clickables # << >> /\ last.kind = "planned"

\* in such a state a planned action returned ok and the observation after it
\* raised
C2_PlannedOkRaisedWitness ==
    /\ pc = "raised" /\ obsExhausted /\ okAt > 0
    /\ state.clickables # << >> /\ Len(transitions) < nExecOk

\* ---- C3
\* C3: every executor call, planned or fallback, is made with the Snapshot of
\* the latest observe call, and observe is called only at the loop top and
\* right after a planned action returned ok.
C3_FreshSnapshot ==
    /\ [](last.kind # "none" => last.snap = last.obs)
    /\ [][nObserve' # nObserve
            => (pc = "observe"
                \/ (pc = "act" /\ last'.kind = "planned" /\ last'.res.ok))]_vars

\* a fallback click in an iteration that follows a re-observation
C3_Witness == last.kind = "fallback" /\ last.res.ok /\ nObserve >= 3

\* ---- C4
\* C4, as claimed: while the run goes on, the Transition log has one record
\* per executor call that returned ok, planned or fallback, each from the
\* fingerprint of the state the action ran in.
C4_Claim ==
    pc # "raised" =>
        /\ Len(transitions) = nExecOk
        /\ \A i \in DOMAIN transitions :
             \E c \in okCalls : c[1] = transitions[i].from

\* ---- C5
\* C5: no attempted set ever loses an element, no entry is evicted, and an
\* attempted set holds only ids of actions that returned ok while the driver
\* was in a state of that fingerprint.
C5_MemoryMonotone ==
    /\ [][\A fp \in DOMAIN state_memory :
             fp \in DOMAIN state_memory' /\ state_memory[fp] \subseteq state_memory'[fp]]_vars
    /\ [](\A fp \in DOMAIN state_memory :
             \A id \in state_memory[fp] : <<fp, id>> \in okCalls)

\* an attempted set that grew twice
C5_Witness == \E fp \in DOMAIN state_memory : Cardinality(state_memory[fp]) >= 2

\* ---- C6
\* the step in which try number K of a planned action returns ok
OkAtLastTry == pc = "act" /\ t = K - 1 /\ nExecOk' = nExecOk + 1

RecordedAfterOk ==
    /\ last'.res.ok /\ last'.try = K
    /\ last'.res.target_id \in state_memory'[state.dom_finger]
    /\ acted'
    /\ pc' \in {"fallback", "raised"}

\* C6, as claimed: when a planned action fails on tries 1..K-1 and returns ok
\* on try K, its target id is recorded and a Transition is appended, and no
\* further executor call, planned or fallback, is made in the iteration.
C6_Original ==
    /\ [][OkAtLastTry
            => /\ RecordedAfterOk
               /\ transitions' = Append(transitions,
                      Transition(state.dom_finger, sha256_dom(page'), last'.a))]_vars
    /\ [](okAt > 0 => iterCalls = okAt)

\* C6, amended: when a planned action fails on tries 1..K-1 and returns ok on
\* try K, its target id is recorded; a Transition is appended when the
\* re-observation succeeds, and when the re-observation fails the exception
\* ends the run with the Transition log unchanged; in both cases no further
\* executor call, planned or fallback, is made in the iteration.
C6_RetrySuccess ==
    /\ [][OkAtLastTry
            => /\ RecordedAfterOk
               /\ nObserve' = nObserve + 1
               /\ \/ /\ pc' = "fallback"
                     /\ transitions' = Append(transitions,
                            Transition(state.dom_finger, sha256_dom(page'), last'.a))
                  \/ /\ pc' = "raised"
                     /\ UNCHANGED transitions]_vars
    /\ [](okAt > 0 => iterCalls = okAt)

\* the first planned action returned ok on try K, a second one was planned,
\* and the iteration is over
C6_Witness ==
    /\ pc = "loopctl" /\ last.kind = "planned" /\ last.try = K /\ last.res.ok
    /\ ai = 1 /\ Len(Batch(actions)) > 1 /\ okAt = K /\ iterCalls = K

\* ---- C7
C7_FirstLb(s) == CHOOSE i \in 1..Len(s) : s[i].k = "lb" /\ \A j \in 1..(i - 1) : s[j].k # "lb"
C7_LastRb(s) == CHOOSE i \in 1..Len(s) : s[i].k = "rb" /\ \A j \in (i + 1)..Len(s) : s[j].k # "rb"

\* the text from the first "[" to the last "]" is a JSON array
C7_SpanIsArray(s) ==
    /\ \E i \in 1..Len(s) : s[i].k = "lb"
    /\ \E i \in 1..Len(s) : s[i].k = "rb"
    /\ C7_FirstLb(s) < C7_LastRb(s)
    /\ json_loads(SubSeq(s, C7_FirstLb(s), C7_LastRb(s))).ok

IsParseFailedNoop(acts) ==
    /\ Len(acts) = 1
    /\ acts[1].t = "obj" /\ acts[1].at = "noop"
    /\ acts[1].conf = 0 /\ acts[1].rat = "parse_failed"

\* C7, as claimed: every response that is not valid JSON, text holding a
\* bracketed span and the empty string included, yields exactly one noop
\* Action with confidence 0 and rationale parse_failed.
C7_Original ==
    (pc = "parsed" /\ ~json_loads(raw).ok) => IsParseFailedNoop(actions)

\* C7, amended: on a response that is not valid JSON, the empty string
\* included: when its text from the first "[" to the last "]" is a valid JSON
\* array, plan_actions returns the members of that array; otherwise it prints
\* the first 1000 characters of the response and returns exactly
\* one noop Action with confidence 0 and rationale parse_failed, unless
\* stdout cannot encode them: then the print raises, the exception leaves
\* plan_actions and no Action is returned.
C7_ParseFallback ==
    (round \in {"returned", "print_raised"} /\ ~json_loads(raw).ok) =>
        IF C7_SpanIsArray(raw)
        THEN /\ pc = "parsed"
             /\ actions = json_loads(SubSeq(raw, C7_FirstLb(raw), C7_LastRb(raw))).val.items
        ELSE IF CanPrint(Printed(raw))
        THEN pc = "parsed" /\ IsParseFailedNoop(actions)
        ELSE pc = "raised" /\ round = "print_raised" /\ actions = << >>

\* text with brackets in it that hold no array, degraded to the noop
C7_Witness ==
    /\ pc = "parsed" /\ ~json_loads(raw).ok
    /\ \E i, j \in 1..Len(raw) : i < j /\ raw[i].k = "lb" /\ raw[j].k = "rb"
    /\ ~C7_SpanIsArray(raw)
    /\ IsParseFailedNoop(actions)

\* text that is no JSON and holds no array, which stdout cannot encode
C7_PrintRaisedWitness ==
    /\ pc = "raised" /\ round = "print_raised"
    /\ ~json_loads(raw).ok /\ ~C7_SpanIsArray(raw)
    /\ \E i \in 1..Len(raw) : raw[i].k = "lb"

\* ---- C8
\* the response decodes, strictly or by extraction, to an array of objects
C8_Decodable(s) ==
    LET strict == json_loads(s)
        m == re_search(s)
        lst == IF strict.ok THEN strict
               ELSE IF m.found THEN json_loads(m.text) ELSE PFail
    IN /\ lst.ok /\ lst.val.t = "list"
       /\ \A i \in DOMAIN lst.val.items : lst.val.items[i].t = "obj"

\* C8, as claimed: a response that does not decode to an array of Action
\* objects degrades to the single noop Action, and the Acting and Fallback
\* phases of the iteration pass without an exception.
C8_Claim ==
    (HasPlan /\ ~C8_Decodable(raw) /\ pc # "act") =>
        (IsParseFailedNoop(actions) /\ ~last.res.raised)

\* ---- C9
ErrorReasons == {"click_error", "fill_error", "navigate_error", "exception"}

\* C9: when the surface calls of find_and_act fail, no exception leaves it and
\* it returns ok = false with a reason; after ACTION_TRY_LIMIT such failures
\* of a planned action the driver goes on to the next planned action or,
\* after the last one, to the fallback.
C9_FailureReported ==
    /\ []((last.res.touched /\ last.surf \in SurfaceFailures)
            => (~last.res.raised /\ ~last.res.ok /\ last.res.reason \in ErrorReasons))
    /\ [][(pc = "act" /\ t = K - 1 /\ iterCalls' = iterCalls + 1
           /\ last'.res.touched /\ last'.surf \in SurfaceFailures)
            => \/ pc' = "act" /\ ai' = ai + 1 /\ t' = 0 /\ ai < Len(Batch(actions))
               \/ pc' = "fallback" /\ ~acted' /\ ai = Len(Batch(actions))]_vars

\* a click that failed K times, with the next planned action up
C9_Witness ==
    /\ pc = "act" /\ ai = 2 /\ t = 0
    /\ last.kind = "planned" /\ last.try = K
    /\ last.res.touched /\ last.surf = "fail" /\ last.res.reason = "click_error"

\* ---- C10
\* C10, as claimed: however the run ends, the final counts were reported.
C10_Claim == pc \in {"done", "raised"} => reported # NoReport

\* ------------------------------------------------------------------- C11
\* C11: one iteration attempts at most PLAN_CAP planned actions, in the
\* order of the plan, each at most ACTION_TRY_LIMIT times, and the fallback
\* click at most once (no call follows it in its iteration), so an iteration
\* makes at most PLAN_CAP * ACTION_TRY_LIMIT + 1 calls of find_and_act.
CallsPerIteration == PLAN_CAP * ACTION_TRY_LIMIT + 1

C11_CallBound ==
    /\ [](iterCalls <= CallsPerIteration)
    /\ [](pc = "act" => /\ ai <= PLAN_CAP /\ ai <= Len(actions)
                        /\ t < ACTION_TRY_LIMIT)
    /\ [](last.kind = "planned" => last.try <= ACTION_TRY_LIMIT)
    /\ [][iterCalls' = iterCalls + 1 =>
            /\ last.kind # "fallback"
            /\ last'.kind = "planned" =>
                  /\ last'.a = actions[ai] /\ last'.try = t + 1
                  /\ \/ ai' = ai /\ t' = t + 1
                     \/ ai' = ai + 1 /\ t' = 0
                     \/ pc' # "act"]_vars

\* all PLAN_CAP * ACTION_TRY_LIMIT planned tries of a plan of four actions
\* failed and the fallback click was made
C11_Witness ==
    /\ Len(actions) > PLAN_CAP
    /\ iterCalls = CallsPerIteration
    /\ last.kind = "fallback"

\* ------------------------------------------------------------------- C12
\* C12: at most one action succeeds per iteration: no call of find_and_act
\* follows the first ok:true of an iteration, planned or fallback, so State
\* Memory gains at most one id and transitions at most one record per
\* iteration, and only at that first ok:true.
FirstOk == okAt = 0 /\ okAt' > 0

C12_OneSuccess ==
    /\ [](okAt > 0 => iterCalls = okAt)
    /\ [][/\ Len(transitions') <= Len(transitions) + 1
          /\ transitions' # transitions => FirstOk
          /\ SumSizes(state_memory') <= SumSizes(state_memory) + 1
          /\ SumSizes(state_memory') # SumSizes(state_memory) => FirstOk]_vars

\* the first of two planned actions succeeded in the second iteration and
\* the batch and the fallback were left with one call made
C12_Witness ==
    /\ nLoopObserve = 2
    /\ pc = "loopctl"
    /\ Len(Batch(actions)) >= 2
    /\ okAt = 1 /\ iterCalls = 1
    /\ last.kind = "planned"
    /\ Len(transitions) = 1

\* ------------------------------------------------------------------- C13
\* C13: the fallback click is made only when no planned action succeeded in
\* the iteration; its target is a clickable id of the current Snapshot that
\* is not in the attempted set of the current state; a successful fallback
\* click records that id in the set; and when no such id exists the loop is
\* left for the final report.
FallbackCall == iterCalls' = iterCalls + 1 /\ last'.kind = "fallback"
NoUnclickedLeft == Range(state.clickables) \subseteq state_memory[state.dom_finger]

C13_FallbackSelection ==
    /\ [][FallbackCall =>
            /\ ~acted /\ okAt = 0
            /\ last'.a.at = "click"
            /\ last'.a.tid \in Range(state.clickables)
            /\ last'.a.tid \notin state_memory[state.dom_finger]
            /\ last'.fp = state.dom_finger /\ last'.snap = state.seq
            /\ last'.res.ok => last'.a.tid \in state_memory'[state.dom_finger]]_vars
    /\ [][(pc = "fallback" /\ ~acted /\ NoUnclickedLeft) => pc' = "report"]_vars

\* a successful fallback click of the one clickable the state had left
C13_Witness ==
    /\ last.kind = "fallback"
    /\ last.res.ok
    /\ Cardinality(state_memory[last.fp]) = 2
    /\ pc = "loopctl"

\* the loop was left by the exhaustion of the fallback candidates; with
\* C13_Witness, the other case of C13
C13_ExhaustedWitness ==
    /\ pc = "report"
    /\ ~acted
    /\ state.clickables # << >>
    /\ NoUnclickedLeft

\* ------------------------------------------------------------------- C14
\* C14: the identity of a state is its structural fingerprint alone: a
\* loop-top observation of the DOM of the observation before it, under
\* another screenshot digest, gets the same fingerprint, is classified as
\* seen (the fingerprint is in visited already and visited does not grow),
\* and finds the attempted set as the first visit left it; the fingerprints
\* in visited are the digests of DOMs, whatever the screenshots were.
LoopTopObserve == pc = "observe" /\ state'.seq = nObserve + 1
DomDigests == {sha256_dom(d) : d \in Pages}

C14_StateIdentity ==
    /\ [](visited \subseteq DomDigests)
    /\ [][(LoopTopObserve /\ reShot') =>
            /\ state'.dom_finger = state.dom_finger
            /\ state'.dom_finger \in visited
            /\ visited' = visited
            /\ state_memory' = state_memory]_vars

\* the second iteration observed the DOM of the first under another
\* screenshot digest, with an id attempted in the first
C14_Witness ==
    /\ reShot
    /\ pc = "plan"
    /\ nLoopObserve = 2
    /\ Cardinality(visited) = 1
    /\ state_memory[state.dom_finger] # {}

\* ------------------------------------------------------------------- C15
\* every call of find_and_act so far returned ok:false or raised, and every
\* Snapshot so far had a clickable (with no successful call every Snapshot
\* was taken at the loop top and its fingerprint is in visited)
AllFailed ==
    /\ nExecOk = 0
    /\ \A d \in Pages : sha256_dom(d) \in visited => d.nc > 0
MemoryEmpty == \A fp \in DOMAIN state_memory : state_memory[fp] = {}
\* the loop is in or past its last iteration and no exception has ended it
BudgetUsedUp == nLoopObserve = MAX_STEPS /\ ~LoopContinues(step) /\ pc # "raised"
RunEnded == pc \in {"report", "done", "raised"}
\* a call of find_and_act was made, and the latest one returned ok:false
LastCallReturnedFailure == last.kind # "none" /\ ~last.res.raised /\ ~last.res.ok

\* C15 as stated: in a run whose calls of find_and_act all returned
\* ok:false, on Snapshots with a clickable, State Memory is empty for every
\* fingerprint, every clickable stays a fallback candidate, and the run has
\* ended only if the step budget is used up.
C15_Original ==
    (AllFailed /\ LastCallReturnedFailure) =>
        /\ MemoryEmpty
        /\ pc = "fallback" =>
              Unclicked(state, state_memory[state.dom_finger]) = state.clickables
        /\ RunEnded => BudgetUsedUp

\* C15: an id enters State Memory only by a successful action: while every
\* call of find_and_act has failed, on Snapshots with a clickable, State
\* Memory is empty for every fingerprint, every clickable of the Snapshot
\* stays a fallback candidate (the id chosen before can be chosen again),
\* the exhaustion exit is not taken, and the final report is reached only
\* with the step budget used up; an exception (observe, plan_actions or a
\* print raising, or find_and_act raising on a plan member that is no object) may
\* end the run before that.
C15_FailuresNotRecorded ==
    AllFailed =>
        /\ MemoryEmpty
        /\ pc = "fallback" =>
              /\ Unclicked(state, state_memory[state.dom_finger]) = state.clickables
              /\ state.clickables # << >>
        /\ pc \in {"report", "done"} => BudgetUsedUp /\ ~NoUnclickedLeft

\* a run on the page with the single clickable 0 in which every call failed
\* and left the page alone: each iteration ended with a failed fallback click
\* of id 0, and the run ended by the step budget
C15_Witness ==
    /\ AllFailed
    /\ page = Dom(1, 1, 0, 1)
    /\ Cardinality(visited) = 1
    /\ pc = "done"
    /\ nLoopObserve = MAX_STEPS
    /\ last.kind = "fallback" /\ last.a.tid = 0 /\ ~last.res.ok

\* ------------------------------------------------------------------- C16
\* C16: find_and_act decides noop, then the missing target, before it
\* touches the page: an action whose action_type is noop or absent yields
\* ok:false with reason noop, with or without a target_id; any other action
\* with no target_id yields ok:false with reason no_target_id; in both cases
\* no locate, click or fill is made and the page is as it was.
IsNoopType(a) == a.at \in {"noop", "absent"}
Untouched(res) == ~res.ok /\ ~res.raised /\ ~res.touched

C16_NoopThenTarget ==
    /\ [](\A a \in Range(actions) : \A surf \in {"ok"} \cup SurfaceFailures :
            a.t = "obj" =>
              LET res == find_and_act(a, surf) IN
              /\ IsNoopType(a) => res.reason = "noop" /\ Untouched(res)
              /\ (~IsNoopType(a) /\ a.tid = NoId) =>
                    res.reason = "no_target_id" /\ Untouched(res))
    /\ [](last.a.t = "obj" =>
            /\ IsNoopType(last.a) => last.res.reason = "noop"
            /\ (~IsNoopType(last.a) /\ last.a.tid = NoId) =>
                  last.res.reason = "no_target_id")
    /\ [][(iterCalls' = iterCalls + 1
             /\ last'.res.reason \in {"noop", "no_target_id"}) =>
            /\ Untouched(last'.res)
            /\ UNCHANGED <<page, tags>>]_vars

\* the run executed a planned noop that names a target, and got reason noop
C16_Witness ==
    /\ last.kind = "planned"
    /\ last.a.at = "noop" /\ last.a.tid # NoId
    /\ last.res.reason = "noop"

\* the run executed a click with no target, and got reason no_target_id
C16_NoTargetWitness ==
    /\ last.kind = "planned"
    /\ last.a.at = "click" /\ last.a.tid = NoId
    /\ last.res.reason = "no_target_id"

\* the run executed a noop with no target (the parse_failed action), and
\* got reason noop, not no_target_id
C16_NoopNoTargetWitness ==
    /\ last.kind = "planned"
    /\ last.a.at = "noop" /\ last.a.tid = NoId
    /\ last.res.reason = "noop"

\* ------------------------------------------------------------------- C17
\* C17: a call of find_and_act that does not return ok:true, a planned try
\* or the fallback click, leaves visited, every State Memory entry and
\* transitions as they were before the call.
FailedCall == iterCalls' = iterCalls + 1 /\ ~last'.res.ok

C17_FailureChangesNothing ==
    [][FailedCall => UNCHANGED <<visited, state_memory, transitions>>]_vars

\* a fallback click failed in a run that had recorded an id and a Transition
C17_Witness ==
    /\ last.kind = "fallback"
    /\ LastCallReturnedFailure
    /\ state_memory[last.fp] # {}
    /\ transitions # << >>

\* a planned try failed in a run that had recorded an id and a Transition
C17_PlannedWitness ==
    /\ last.kind = "planned"
    /\ LastCallReturnedFailure
    /\ last.res.touched
    /\ state_memory[last.fp] # {}
    /\ transitions # << >>

\* ------------------------------------------------------------------- C18
\* the number of discovered states is at most the number of iterations
\* started, which is at most MAX_STEPS, so the test of the visited cap is
\* never true
VisitedBound ==
    /\ Cardinality(visited) <= nLoopObserve
    /\ nLoopObserve <= MAX_STEPS
    /\ ~VisitedLimitReached(visited)

EndedByBudget == pc \in {"report", "done"} /\ BudgetUsedUp
EndedByExhaustion ==
    /\ pc \in {"report", "done"}
    /\ state # NoState /\ ~acted /\ NoUnclickedLeft

\* C18 as stated: len(visited) is at most the number of iterations started,
\* which is at most MAX_STEPS, the visited cap is never taken, and every run
\* that has ended has ended by the step budget or by fallback exhaustion.
C18_Original ==
    /\ VisitedBound
    /\ RunEnded => EndedByBudget \/ EndedByExhaustion

\* C18: len(visited) is at most the number of iterations started, which is
\* at most MAX_STEPS, so the visited cap is never taken; every run that
\* reaches its final report left the loop by the step budget or by fallback
\* exhaustion, and every other ended run was ended by an exception.
C18_VisitedCapDead ==
    /\ VisitedBound
    /\ pc \in {"report", "done"} => EndedByBudget \/ EndedByExhaustion
    /\ RunEnded => EndedByBudget \/ EndedByExhaustion \/ pc = "raised"

\* a run that discovered a new state in each of its MAX_STEPS iterations
\* and ended by the step budget, the cap not taken
C18_Witness ==
    /\ Cardinality(visited) = MAX_STEPS
    /\ nLoopObserve = MAX_STEPS
    /\ pc = "done"
    /\ ~NoUnclickedLeft

\* ------------------------------------------------------------------- C19
\* C19: after the loop-top observation of every iteration (and in every
\* state of the run) the keys of State Memory are the visited set, so a
\* fingerprint is classified new exactly when it has no State Memory entry,
\* and the from-fingerprint of every Transition is in visited.
C19_MemoryKeysAreVisited ==
    /\ [](DOMAIN state_memory = visited)
    /\ [](\A i \in 1..Len(transitions) : transitions[i].from \in visited)
    /\ [][LoopTopObserve =>
            /\ (state'.dom_finger \notin visited) =
                  (state'.dom_finger \notin DOMAIN state_memory)
            /\ state'.dom_finger \in visited'
            /\ DOMAIN state_memory' = visited']_vars

\* the second iteration observed a second state, reached by a Transition
\* from the first
C19_Witness ==
    /\ pc = "plan"
    /\ nLoopObserve = 2
    /\ Cardinality(visited) = 2
    /\ Len(transitions) = 1
    /\ transitions[1].from # state.dom_finger

====
